---- MODULE Spec2Model ----
(***************************************************************************)
(* mailcoil, Email.py: the message assembler (Email), its value types      *)
(* (MailAddress, Attachment, SerializedEmail) and the layered              *)
(* serialization body -> attachments -> security -> headers.               *)
(*                                                                         *)
(* Representation.  An optional value (Python's None or a value) is a      *)
(* sequence of length 0 or 1.  A Python str that the code only stores,     *)
(* compares and concatenates is a TLA+ string.  A str handed to            *)
(* MailAddress.parse is a sequence of lexical tokens (whitespace, comma,   *)
(* a bare addr-spec, a phrase followed by an angle address).  The text     *)
(* body is a sequence of paragraphs (the pieces between newlines), each a  *)
(* sequence of word lengths.  A MIME entity is a record with the content   *)
(* type, the header list in the order the headers were set, the payload    *)
(* and the children.                                                       *)
(***************************************************************************)
EXTENDS Naturals, Sequences, FiniteSets, TLC

VARIABLES
    _from,          \* Email._from: MailAddress
    _to,            \* Email._to: list of MailAddress
    _cc,            \* Email._cc
    _bcc,           \* Email._bcc
    _subject,       \* Email._subject: optional str
    _text,          \* Email._text: optional text
    _wrap_text,     \* Email._wrap_text: bool
    _html,          \* Email._html: optional str
    _security,      \* Email._security: optional security processor
    _datetime,      \* Email._datetime: time.time() at construction
    _message_id,    \* Email._message_id
    _attachments,   \* Email._attachments: list of Attachment
    ret,            \* what serialize() returned or raised, when it was the last call
                    \* made on the Email; NoResult after any other call
    given,          \* history: the mailboxes the arguments of to/cc/bcc held
    returned,       \* history: per attach_data call that added an attachment, its
                    \* arguments and the value it returned
    parseIn,        \* the argument of a MailAddress.parse call
    parseOut        \* its outcome

email == <<_from, _to, _cc, _bcc, _subject, _text, _wrap_text, _html, _security,
           _datetime, _message_id, _attachments>>
history == <<given, returned>>
parsing == <<parseIn, parseOut>>
vars == <<email, ret, history, parsing>>

----------------------------------------------------------------------------
\* Bounds of the model.

\* most recipients an Email gets (to, cc and bcc together)
MaxRcpt == 2
\* most addresses one to()/cc()/bcc() call is given
MaxArgs == 2
\* most attachments an Email gets
MaxAtt == 2
\* most tokens of a string handed to MailAddress.parse
MaxTokens == 3

----------------------------------------------------------------------------
\* Optional values.

None == <<>>
Some(v) == <<v>>
Val(o) == o[1]

RECURSIVE Concat(_)
\* the concatenation of a sequence of sequences
Concat(ss) == IF ss = <<>> THEN <<>> ELSE Head(ss) \o Concat(Tail(ss))

\* the sequences over S of length at most n
SeqUpTo(S, n) == UNION {[1..k -> S] : k \in 0..n}

Last(s) == s[Len(s)]

----------------------------------------------------------------------------
\* MailAddress

MailAddress(mail, name) == [mail |-> mail, name |-> name]

\* email.utils.formataddr((name, mail)) for a name that needs no quoting
formataddr(name, mail) == IF name = "" THEN mail ELSE name \o " <" \o mail \o ">"

\* MailAddress.encode
encode(self) ==
    IF self.name # None THEN formataddr(Val(self.name), self.mail) ELSE self.mail

\* Lexical tokens of an address string.
Ws == [t |-> "ws", name |-> "", mail |-> ""]
Comma == [t |-> "comma", name |-> "", mail |-> ""]
AddrSpec(mail) == [t |-> "spec", name |-> "", mail |-> mail]
NameAddr(name, mail) == [t |-> "named", name |-> name, mail |-> mail]
IsMailbox(tok) == tok.t \in {"spec", "named"}

RECURSIVE gotonext(_, _)
\* email._parseaddr.AddrlistClass.gotonext: skip white space
gotonext(field, pos) ==
    IF pos <= Len(field) /\ field[pos].t = "ws" THEN gotonext(field, pos + 1) ELSE pos

\* AddrlistClass.getaddress: the addresses read at pos and the position after them
getaddress(field, pos) ==
    LET p1 == gotonext(field, pos)
        rd == IF p1 > Len(field) THEN [list |-> <<>>, pos |-> p1]
              ELSE IF IsMailbox(field[p1])
                   THEN [list |-> << <<field[p1].name, field[p1].mail>> >>, pos |-> p1 + 1]
                   ELSE [list |-> <<>>, pos |-> p1 + 1]
        p2 == gotonext(field, rd.pos)
    IN  [list |-> rd.list,
         pos  |-> IF p2 <= Len(field) /\ field[p2].t = "comma" THEN p2 + 1 ELSE p2]

RECURSIVE getaddrlist(_, _)
\* AddrlistClass.getaddrlist: an unreadable address is reported as ('', '')
getaddrlist(field, pos) ==
    IF pos > Len(field) THEN <<>>
    ELSE LET ad == getaddress(field, pos)
         IN  (IF ad.list # <<>> THEN ad.list ELSE << <<"", "">> >>)
             \o getaddrlist(field, ad.pos)

\* email.utils.getaddresses([addr])
getaddresses(addr) == getaddrlist(addr, 1)

\* An argument of MailAddress.parse: a MailAddress or a str.
AddrArg(obj) == [isAddress |-> TRUE, obj |-> obj, str |-> <<>>]
StrArg(str) == [isAddress |-> FALSE, obj |-> MailAddress("", None), str |-> str]

Returned(v) == [raised |-> FALSE, exc |-> "", value |-> v]
Raised(exc) == [raised |-> TRUE, exc |-> exc, value |-> MailAddress("", None)]

\* MailAddress.parse: the tuple pattern ((name, mail), ) raises ValueError unless
\* getaddresses returned exactly one pair
parse(addr) ==
    IF addr.isAddress THEN Returned(addr.obj)
    ELSE LET l == getaddresses(addr.str)
         IN  IF Len(l) # 1 THEN Raised("ValueError")
             ELSE IF l[1][1] = "" THEN Returned(MailAddress(l[1][2], None))
                  ELSE Returned(MailAddress(l[1][2], Some(l[1][1])))

----------------------------------------------------------------------------
\* MIME entities (email.mime)

Header(name, value) == <<name, value>>
HasHeader(msg, name) == \E i \in 1..Len(msg.headers) : msg.headers[i][1] = name
\* the values of the headers called name, in the order they were set
HeaderValues(msg, name) ==
    LET hs == SelectSeq(msg.headers, LAMBDA h : h[1] = name)
    IN  [i \in 1..Len(hs) |-> hs[i][2]]
\* msg[name] = value: email.message.Message.__setitem__ appends a header
SetHeader(msg, name, value) == [msg EXCEPT !.headers = @ \o <<Header(name, value)>>]

NoPayload == [cte |-> "", lines |-> <<>>, bytes |-> ""]

\* MIMEGeneric.__init__: a non-multipart entity, its payload set and then encoded
MIMEGeneric(payload, maintype, subtype, encoder) ==
    [multipart |-> FALSE,
     headers   |-> <<Header("Content-Type", maintype \o "/" \o subtype),
                     Header("MIME-Version", "1.0"),
                     Header("Content-Transfer-Encoding", encoder)>>,
     payload   |-> [payload EXCEPT !.cte = encoder],
     children  |-> <<>>]

\* email.mime.multipart.MIMEMultipart(subtype)
MIMEMultipart(subtype) ==
    [multipart |-> TRUE,
     headers   |-> <<Header("Content-Type", "multipart/" \o subtype),
                     Header("MIME-Version", "1.0")>>,
     payload   |-> NoPayload,
     children  |-> <<>>]

\* Message.attach(part)
Attach(msg, part) == [msg EXCEPT !.children = @ \o <<part>>]

RECURSIVE AttachAll(_, _)
AttachAll(msg, parts) ==
    IF parts = <<>> THEN msg ELSE AttachAll(Attach(msg, Head(parts)), Tail(parts))

ContentType(msg) == HeaderValues(msg, "Content-Type")[1]

----------------------------------------------------------------------------
\* Attachment

Attachment(data, maintype, subtype, filename, inline, content_id) ==
    [data |-> data, maintype |-> maintype, subtype |-> subtype, filename |-> filename,
     inline |-> inline, content_id |-> content_id]

\* Attachment.as_mime
as_mime(self) ==
    LET mime == MIMEGeneric([NoPayload EXCEPT !.bytes = self.data],
                            self.maintype, self.subtype, "base64")
        disp == (IF self.inline THEN "inline" ELSE "attachment")
                \o "; filename=\"" \o self.filename \o "\""
    IN  SetHeader(SetHeader(mime, "Content-Disposition", disp),
                  "Content-ID", self.content_id)

----------------------------------------------------------------------------
\* The values the calls are given.

\* arguments of to(), cc() and bcc(): a MailAddress, a string with one mailbox, a
\* string with two
AddrArgs ==
    {AddrArg(MailAddress("ann@x", Some("Ann"))),
     StrArg(<<NameAddr("Bob", "bob@x")>>),
     StrArg(<<AddrSpec("ann@x"), Comma, Ws, AddrSpec("bob@x")>>)}
FromArgs == {StrArg(<<NameAddr("Me", "me@x")>>), StrArg(<<Comma, AddrSpec("me@x")>>)}
Subjects == {None, Some("Hello")}
\* a text of three paragraphs, the second one empty
Texts == {None, Some(<< <<40, 30>>, <<>>, <<40, 40>> >>)}
Htmls == {None, Some("<p>Hello</p>")}
\* security processors: none, or one that signs
Securities == {None, Some("sign")}
\* what time.time() and os.urandom(16).hex() give at construction
Environments == {[time |-> 1000, random |-> "00ff"], [time |-> 2000, random |-> "a1b2"]}
\* arguments of attach_data: data, filename, mimetype (split at "/"), inline, cid
AttachDataArgs ==
    {[data |-> "PNG", filename |-> "a.png", mimetype |-> None, inline |-> FALSE, cid |-> None],
     [data |-> "GIF", filename |-> "blob", mimetype |-> Some(<<"image", "gif">>),
      inline |-> TRUE, cid |-> Some("cid1")],
     [data |-> "TXT", filename |-> "blob", mimetype |-> Some(<<"text">>),
      inline |-> FALSE, cid |-> None]}
\* the files attach() may be asked to read: a path (its components) and the content,
\* None for a file that cannot be read
Files ==
    {[path |-> <<"img", "a.png">>, content |-> Some("PNG")],
     [path |-> <<"gone.bin">>, content |-> None]}

\* mailcoil.VERSION
VERSION == "0.0.0"

----------------------------------------------------------------------------
\* Email

\* Email.recipient_count
recipient_count == Len(_to) + Len(_cc) + Len(_bcc)

\* what serialize() returned or raised, and the process() calls it made on the way
\* (the argument and the result of each)
Return(v, calls) ==
    [called |-> TRUE, raised |-> FALSE, exc |-> "", value |-> v, calls |-> calls]
Raise(exc, calls) ==
    [called |-> TRUE, raised |-> TRUE, exc |-> exc, value |-> "None", calls |-> calls]
NoResult == [called |-> FALSE, raised |-> FALSE, exc |-> "", value |-> "None", calls |-> <<>>]

\* the mailboxes a to/cc/bcc argument holds
MailboxesOf(arg) ==
    IF arg.isAddress THEN <<arg.obj.mail>>
    ELSE LET toks == SelectSeq(arg.str, IsMailbox)
         IN  [i \in 1..Len(toks) |-> toks[i].mail]

\* [ MailAddress.parse(addr) for addr in mail_addresses ]
ParseAll(args) == [i \in 1..Len(args) |-> parse(args[i])]

\* Email.to
to ==
    \E args \in SeqUpTo(AddrArgs, MaxArgs) :
        /\ recipient_count + Len(args) <= MaxRcpt
        /\ LET parsed == ParseAll(args)
           IN  IF \E i \in 1..Len(args) : parsed[i].raised
               THEN /\ ret' = NoResult
                    /\ UNCHANGED <<email, history>>
               ELSE /\ _to' = _to \o [i \in 1..Len(args) |-> parsed[i].value]
                    /\ given' = [given EXCEPT !.to = @ \o [i \in 1..Len(args) |-> MailboxesOf(args[i])]]
                    /\ ret' = NoResult
                    /\ UNCHANGED <<_from, _cc, _bcc, _subject, _text, _wrap_text, _html,
                                   _security, _datetime, _message_id, _attachments, returned>>
        /\ UNCHANGED parsing

\* Email.cc
cc ==
    \E args \in SeqUpTo(AddrArgs, MaxArgs) :
        /\ recipient_count + Len(args) <= MaxRcpt
        /\ LET parsed == ParseAll(args)
           IN  IF \E i \in 1..Len(args) : parsed[i].raised
               THEN /\ ret' = NoResult
                    /\ UNCHANGED <<email, history>>
               ELSE /\ _cc' = _cc \o [i \in 1..Len(args) |-> parsed[i].value]
                    /\ given' = [given EXCEPT !.cc = @ \o [i \in 1..Len(args) |-> MailboxesOf(args[i])]]
                    /\ ret' = NoResult
                    /\ UNCHANGED <<_from, _to, _bcc, _subject, _text, _wrap_text, _html,
                                   _security, _datetime, _message_id, _attachments, returned>>
        /\ UNCHANGED parsing

\* Email.bcc
bcc ==
    \E args \in SeqUpTo(AddrArgs, MaxArgs) :
        /\ recipient_count + Len(args) <= MaxRcpt
        /\ LET parsed == ParseAll(args)
           IN  IF \E i \in 1..Len(args) : parsed[i].raised
               THEN /\ ret' = NoResult
                    /\ UNCHANGED <<email, history>>
               ELSE /\ _bcc' = _bcc \o [i \in 1..Len(args) |-> parsed[i].value]
                    /\ given' = [given EXCEPT !.bcc = @ \o [i \in 1..Len(args) |-> MailboxesOf(args[i])]]
                    /\ ret' = NoResult
                    /\ UNCHANGED <<_from, _to, _cc, _subject, _text, _wrap_text, _html,
                                   _security, _datetime, _message_id, _attachments, returned>>
        /\ UNCHANGED parsing

\* Email.subject (setter)
set_subject ==
    \E value \in Subjects :
        /\ _subject' = value
        /\ ret' = NoResult
        /\ UNCHANGED <<_from, _to, _cc, _bcc, _text, _wrap_text, _html, _security,
                       _datetime, _message_id, _attachments, history, parsing>>

\* Email.text (setter)
set_text ==
    \E value \in Texts :
        /\ _text' = value
        /\ ret' = NoResult
        /\ UNCHANGED <<_from, _to, _cc, _bcc, _subject, _wrap_text, _html, _security,
                       _datetime, _message_id, _attachments, history, parsing>>

\* Email.html (setter)
set_html ==
    \E value \in Htmls :
        /\ _html' = value
        /\ ret' = NoResult
        /\ UNCHANGED <<_from, _to, _cc, _bcc, _subject, _text, _wrap_text, _security,
                       _datetime, _message_id, _attachments, history, parsing>>

\* Email.security (setter)
set_security ==
    \E value \in Securities :
        /\ _security' = value
        /\ ret' = NoResult
        /\ UNCHANGED <<_from, _to, _cc, _bcc, _subject, _text, _wrap_text, _html,
                       _datetime, _message_id, _attachments, history, parsing>>

\* mimetypes.guess_type(filename): the type (split at "/") of a known extension
guess_type(filename) == IF filename = "a.png" THEN Some(<<"image", "png">>) ELSE None

\* Email._mimetype, the result split at "/"
_mimetype(filename, override) ==
    IF override = None
    THEN LET mimetype == guess_type(filename)
         IN  IF mimetype = None THEN <<"application", "octet-stream">> ELSE Val(mimetype)
    ELSE Val(override)

\* variant of content_id: the index is left out of the synthesized id
content_id_no_index(cid) == IF cid = None THEN "cid" ELSE Val(cid)

\* Email.attach_data, line 164: the content id of the attachment being added
content_id(cid) == IF cid = None THEN "cid" \o ToString(Len(_attachments)) ELSE Val(cid)

\* variant of cid_uri: the URI names the file instead of the content id
cid_uri_filename(attachment) == "cid:" \o attachment.filename

\* Email.attach_data, line 167: the value returned for the attachment added
cid_uri(attachment) == "cid:" \o attachment.content_id

\* Email.attach_data(data, filename, mimetype, inline, cid): split("/") must give
\* two parts, or the unpacking raises ValueError
attach_data_with(data, filename, mimetype, inline, cid) ==
    LET type == _mimetype(filename, mimetype)
    IN  IF Len(type) # 2
        THEN /\ ret' = NoResult
             /\ UNCHANGED <<email, history>>
        ELSE LET attachment == Attachment(data, type[1], type[2], filename, inline,
                                          content_id(cid))
             IN  /\ _attachments' = Append(_attachments, attachment)
                 /\ returned' = Append(returned,
                                        [data |-> data, filename |-> filename, cid |-> cid,
                                         value |-> cid_uri(attachment)])
                 /\ ret' = NoResult
                 /\ UNCHANGED <<_from, _to, _cc, _bcc, _subject, _text, _wrap_text, _html,
                                _security, _datetime, _message_id, given>>

\* Email.attach_data
attach_data ==
    \E a \in AttachDataArgs :
        /\ Len(_attachments) < MaxAtt
        /\ attach_data_with(a.data, a.filename, a.mimetype, a.inline, a.cid)
        /\ UNCHANGED parsing

\* Email.attach: open() raises for a file that cannot be read
attach ==
    \E f \in Files :
        /\ Len(_attachments) < MaxAtt
        /\ IF f.content = None
           THEN /\ ret' = NoResult
                /\ UNCHANGED <<email, history>>
           ELSE attach_data_with(Val(f.content), Last(f.path), None, FALSE, None)
        /\ UNCHANGED parsing

\* the column width of textwrap.wrap
WrapWidth == 72

RECURSIVE fill(_, _, _)
\* textwrap.wrap: words are put on the line while it stays within the width
fill(words, line, width) ==
    IF words = <<>> THEN (IF line = <<>> THEN <<>> ELSE <<line>>)
    ELSE LET w == Head(words)
         IN  IF line = <<>> THEN fill(Tail(words), <<w>>, width - w)
             ELSE IF w + 1 <= width THEN fill(Tail(words), Append(line, w), width - w - 1)
                  ELSE <<line>> \o fill(words, <<>>, WrapWidth)

wrap(paragraph) == fill(paragraph, <<>>, WrapWidth)

RECURSIVE _wrap_paragraphs(_)
\* Email._wrap_paragraphs
_wrap_paragraphs(text) ==
    IF text = <<>> THEN <<>>
    ELSE LET parwrapped == wrap(Head(text))
         IN  (IF Len(parwrapped) = 0 THEN << <<>> >> ELSE parwrapped)
             \o _wrap_paragraphs(Tail(text))

\* Email.wrapped_text
wrapped_text == IF _wrap_text THEN _wrap_paragraphs(Val(_text)) ELSE Val(_text)

\* Email._render_text_quopri; set_param adds the charset to the Content-Type header
_render_text_quopri(payload, subtype) ==
    LET part == MIMEGeneric(payload, "text", subtype, "quoted-printable")
    IN  [part EXCEPT !.headers[1][2] = @ \o "; charset=\"utf-8\""]

\* variant of text_content: the HTML part is attached before the plain part
text_content_html_first ==
    IF _text # None /\ _html # None
    THEN Attach(Attach(MIMEMultipart("alternative"),
                       _render_text_quopri([NoPayload EXCEPT !.bytes = Val(_html)], "html")),
                _render_text_quopri([NoPayload EXCEPT !.lines = wrapped_text], "plain"))
    ELSE IF _text # None
    THEN _render_text_quopri([NoPayload EXCEPT !.lines = wrapped_text], "plain")
    ELSE _render_text_quopri([NoPayload EXCEPT !.bytes = Val(_html)], "html")

\* Email._layer_text_content, lines 196-205: the body layer when text or html is set
text_content ==
    IF _text # None /\ _html # None
    THEN Attach(Attach(MIMEMultipart("alternative"),
                       _render_text_quopri([NoPayload EXCEPT !.lines = wrapped_text], "plain")),
                _render_text_quopri([NoPayload EXCEPT !.bytes = Val(_html)], "html"))
    ELSE IF _text # None
    THEN _render_text_quopri([NoPayload EXCEPT !.lines = wrapped_text], "plain")
    ELSE _render_text_quopri([NoPayload EXCEPT !.bytes = Val(_html)], "html")

\* variant of _layer_text_content: the body is checked before the recipients
_layer_text_content_body_first ==
    IF _text = None /\ _html = None
    THEN [raised |-> TRUE, exc |-> "NoBodyException", msg |-> MIMEMultipart("")]
    ELSE IF recipient_count = 0
    THEN [raised |-> TRUE, exc |-> "NoRecipientException", msg |-> MIMEMultipart("")]
    ELSE [raised |-> FALSE, exc |-> "", msg |-> text_content]

\* Email._layer_text_content: the body layer, or the exception raised
_layer_text_content ==
    IF recipient_count = 0
    THEN [raised |-> TRUE, exc |-> "NoRecipientException", msg |-> MIMEMultipart("")]
    ELSE IF _text = None /\ _html = None
    THEN [raised |-> TRUE, exc |-> "NoBodyException", msg |-> MIMEMultipart("")]
    ELSE [raised |-> FALSE, exc |-> "", msg |-> text_content]

\* variant of _layer_attachments: the body layer is attached after the attachments
_layer_attachments_body_last(prev_layer) ==
    IF Len(_attachments) = 0 THEN prev_layer
    ELSE Attach(AttachAll(MIMEMultipart("related"),
                          [i \in 1..Len(_attachments) |-> as_mime(_attachments[i])]),
                prev_layer)

\* Email._layer_attachments
_layer_attachments(prev_layer) ==
    IF Len(_attachments) = 0 THEN prev_layer
    ELSE AttachAll(Attach(MIMEMultipart("related"), prev_layer),
                   [i \in 1..Len(_attachments) |-> as_mime(_attachments[i])])

\* the security processor's process(): signing wraps the entity and its signature
\* in a new multipart
process(security, entity) ==
    Attach(Attach(MIMEMultipart("signed"), entity),
           MIMEGeneric([NoPayload EXCEPT !.bytes = "signature"],
                       "application", "pkcs7-signature", "base64"))

\* Email._layer_security: the layer, and the process() calls made (argument, result)
_layer_security(prev_layer) ==
    IF _security = None THEN [msg |-> prev_layer, calls |-> <<>>]
    ELSE LET msg == process(Val(_security), prev_layer)
         IN  [msg |-> msg, calls |-> <<[arg |-> prev_layer, result |-> msg]>>]

RECURSIVE join(_, _)
\* str.join
join(sep, strs) ==
    IF strs = <<>> THEN ""
    ELSE IF Len(strs) = 1 THEN strs[1]
    ELSE strs[1] \o sep \o join(sep, Tail(strs))

\* email.utils.formatdate(timeval, localtime = True)
formatdate(timeval) == "date " \o ToString(timeval) \o " +0000"

\* [ address.encode() for address in addresses ]
EncodeAll(addresses) == [i \in 1..Len(addresses) |-> encode(addresses[i])]

\* variant of set_headers: no BCC header is set
set_headers_no_bcc(msg) ==
    LET m1 == IF _subject # None THEN SetHeader(msg, "Subject", Val(_subject)) ELSE msg
        m2 == SetHeader(m1, "Message-ID", _message_id)
        m3 == SetHeader(m2, "Date", formatdate(_datetime))
        m4 == SetHeader(m3, "User-Agent", "mailcoil v" \o VERSION)
        m5 == SetHeader(m4, "From", encode(_from))
        m6 == IF Len(_to) > 0 THEN SetHeader(m5, "To", join(", ", EncodeAll(_to))) ELSE m5
    IN  IF Len(_cc) > 0 THEN SetHeader(m6, "CC", join(", ", EncodeAll(_cc))) ELSE m6

\* Email.serialize, lines 229-240: the headers set on the top-level entity
set_headers(msg) ==
    LET m1 == IF _subject # None THEN SetHeader(msg, "Subject", Val(_subject)) ELSE msg
        m2 == SetHeader(m1, "Message-ID", _message_id)
        m3 == SetHeader(m2, "Date", formatdate(_datetime))
        m4 == SetHeader(m3, "User-Agent", "mailcoil v" \o VERSION)
        m5 == SetHeader(m4, "From", encode(_from))
        m6 == IF Len(_to) > 0 THEN SetHeader(m5, "To", join(", ", EncodeAll(_to))) ELSE m5
        m7 == IF Len(_cc) > 0 THEN SetHeader(m6, "CC", join(", ", EncodeAll(_cc))) ELSE m6
    IN  IF Len(_bcc) > 0 THEN SetHeader(m7, "BCC", join(", ", EncodeAll(_bcc))) ELSE m7

\* variant of recipients: the bcc list is left out
recipients_without_bcc ==
    LET all == _to \o _cc
    IN  [i \in 1..Len(all) |-> all[i].mail]

\* Email.serialize, line 241: the recipients of the SerializedEmail
recipients ==
    LET all == _to \o _cc \o _bcc
    IN  [i \in 1..Len(all) |-> all[i].mail]

\* variant of serialized: the headers are set before the security layer
serialized_headers_first ==
    LET body == _layer_text_content
    IN  IF body.raised THEN Raise(body.exc, <<>>)
        ELSE LET attached == _layer_attachments(body.msg)
                 secured  == _layer_security(set_headers(attached))
             IN  Return([content    |-> secured.msg,
                         recipients |-> recipients,
                         layers     |-> [body |-> body.msg, attachments |-> attached]],
                        secured.calls)

\* Email.serialize: the SerializedEmail returned (with the body layer and the
\* attachment layer it went through), or the exception raised
serialized ==
    LET body == _layer_text_content
    IN  IF body.raised THEN Raise(body.exc, <<>>)
        ELSE LET attached == _layer_attachments(body.msg)
                 secured  == _layer_security(attached)
             IN  Return([content    |-> set_headers(secured.msg),
                         recipients |-> recipients,
                         layers     |-> [body |-> body.msg, attachments |-> attached]],
                        secured.calls)

\* variant of serialize: the message id is drawn again at each call
serialize_new_id ==
    /\ _message_id' = "<" \o "c3d4" \o "@mailcoil>"
    /\ ret' = serialized
    /\ UNCHANGED <<_from, _to, _cc, _bcc, _subject, _text, _wrap_text, _html, _security,
                   _datetime, _attachments, history, parsing>>

\* Email.serialize
serialize ==
    /\ ret' = serialized
    /\ UNCHANGED <<email, history, parsing>>

\* Email.__init__
Init ==
    /\ \E from_address \in FromArgs :
          /\ ~parse(from_address).raised
          /\ _from = parse(from_address).value
    /\ _to = <<>>
    /\ _cc = <<>>
    /\ _bcc = <<>>
    /\ _subject \in Subjects
    /\ _text \in Texts
    /\ _wrap_text \in BOOLEAN
    /\ _html \in Htmls
    /\ _security \in Securities
    /\ \E env \in Environments :
          /\ _datetime = env.time
          /\ _message_id = "<" \o env.random \o "@mailcoil>"
    /\ _attachments = <<>>
    /\ ret = NoResult
    /\ given = [to |-> <<>>, cc |-> <<>>, bcc |-> <<>>]
    /\ returned = <<>>
    /\ parseIn = AddrArg(MailAddress("", None))
    /\ parseOut = [called |-> FALSE, result |-> Raised("")]

Next ==
    \/ to
    \/ cc
    \/ bcc
    \/ set_subject
    \/ set_text
    \/ set_html
    \/ set_security
    \/ attach_data
    \/ attach
    \/ serialize

Spec == Init /\ [][Next]_vars

----------------------------------------------------------------------------
\* MailAddress.parse on its own: the argument is drawn, then parse is applied.

Tokens == {Ws, Comma, AddrSpec("ann@x"), NameAddr("Bob", "bob@x")}

\* mailboxes of the string are separated by a comma
Separated(str) ==
    \A i, j \in 1..Len(str) :
        (i < j /\ IsMailbox(str[i]) /\ IsMailbox(str[j]))
            => \E k \in (i + 1)..(j - 1) : str[k].t = "comma"

ParseArgs ==
    {StrArg(str) : str \in {x \in SeqUpTo(Tokens, MaxTokens) : Separated(x)}}
    \cup {AddrArg(MailAddress("ann@x", n)) : n \in {None, Some("Ann"), Some("")}}

InitParse ==
    /\ _from = MailAddress("me@x", None)
    /\ _to = <<>>
    /\ _cc = <<>>
    /\ _bcc = <<>>
    /\ _subject = None
    /\ _text = None
    /\ _wrap_text = FALSE
    /\ _html = None
    /\ _security = None
    /\ _datetime = 1000
    /\ _message_id = "<00ff@mailcoil>"
    /\ _attachments = <<>>
    /\ ret = NoResult
    /\ given = [to |-> <<>>, cc |-> <<>>, bcc |-> <<>>]
    /\ returned = <<>>
    /\ parseIn \in ParseArgs
    /\ parseOut = [called |-> FALSE, result |-> Raised("")]

\* MailAddress.parse(parseIn)
parse_call ==
    /\ ~parseOut.called
    /\ parseOut' = [called |-> TRUE, result |-> parse(parseIn)]
    /\ UNCHANGED <<email, ret, history, parseIn>>

NextParse == parse_call

SpecParse == InitParse /\ [][NextParse]_vars

----------------------------------------------------------------------------
\* Properties.

\* serialize() was the last call and returned a SerializedEmail
Serialized == ret.called /\ ~ret.raised

\* C1: serialize() on an Email without any recipient raises the no-recipient error
\* whatever its body is; with a recipient and neither text nor html it raises the
\* no-body error; with a recipient and a text or html it succeeds.  The outcome is
\* decided by the lists and the body at the call, whatever they were at construction.
C1_SerializeErrors ==
    ret.called =>
        /\ (Len(_to) = 0 /\ Len(_cc) = 0 /\ Len(_bcc) = 0)
              => (ret.raised /\ ret.exc = "NoRecipientException")
        /\ (Len(_to) + Len(_cc) + Len(_bcc) > 0 /\ _text = None /\ _html = None)
              => (ret.raised /\ ret.exc = "NoBodyException")
        /\ (Len(_to) + Len(_cc) + Len(_bcc) > 0 /\ (_text # None \/ _html # None))
              => ~ret.raised

\* serialize() raised the no-body error on an Email that has a recipient
C1_Witness ==
    /\ ret.called /\ ret.raised /\ ret.exc = "NoBodyException"
    /\ Len(_cc) > 0

\* C2: the recipients of the SerializedEmail are the mailboxes given to to(), then
\* those given to cc(), then those given to bcc(), each in call order, as bare
\* mailbox strings.
C2_RecipientsInOrder ==
    Serialized =>
        ret.value.recipients = Concat(given.to) \o Concat(given.cc) \o Concat(given.bcc)

\* a SerializedEmail of an Email with a to and a bcc recipient, one with a display name
C2_Witness ==
    /\ Serialized
    /\ Len(_to) > 0 /\ Len(_bcc) > 0
    /\ \E i \in 1..Len(_bcc) : _bcc[i].name # None

IsTextLeaf(msg, subtype) ==
    /\ ~msg.multipart
    /\ msg.children = <<>>
    /\ HeaderValues(msg, "Content-Type") = <<"text/" \o subtype \o "; charset=\"utf-8\"">>

\* C3: the body layer is a multipart/alternative of exactly the plain part and then
\* the HTML part when text and html are set, the plain leaf when only text is set,
\* the HTML leaf when only html is set.
C3_BodyLayerShape ==
    Serialized =>
        LET body == ret.value.layers.body
        IN  /\ (_text # None /\ _html # None) =>
                  /\ body.multipart
                  /\ HeaderValues(body, "Content-Type") = <<"multipart/alternative">>
                  /\ Len(body.children) = 2
                  /\ IsTextLeaf(body.children[1], "plain")
                  /\ Concat(body.children[1].payload.lines) = Concat(Val(_text))
                  /\ IsTextLeaf(body.children[2], "html")
                  /\ body.children[2].payload.bytes = Val(_html)
            /\ (_text # None /\ _html = None) =>
                  /\ IsTextLeaf(body, "plain")
                  /\ Concat(body.payload.lines) = Concat(Val(_text))
            /\ (_text = None /\ _html # None) =>
                  /\ IsTextLeaf(body, "html")
                  /\ body.payload.bytes = Val(_html)

\* a SerializedEmail of an Email with both a text and an html body
C3_Witness == Serialized /\ _text # None /\ _html # None

\* C4: without attachments the attachment layer is the body layer; with n >= 1 it
\* is a multipart/related of n+1 children, the body layer first and then the leaf of
\* each attachment in the order of the calls that added them.
C4_AttachmentLayer ==
    Serialized =>
        LET body     == ret.value.layers.body
            attached == ret.value.layers.attachments
            n        == Len(returned)
        IN  /\ Len(_attachments) = n
            /\ n = 0 => attached = body
            /\ n >= 1 =>
                  /\ attached.multipart
                  /\ HeaderValues(attached, "Content-Type") = <<"multipart/related">>
                  /\ Len(attached.children) = n + 1
                  /\ attached.children[1] = body
                  /\ \A i \in 1..n :
                        /\ attached.children[i + 1] = as_mime(_attachments[i])
                        /\ attached.children[i + 1].payload.bytes = returned[i].data
                        /\ ~attached.children[i + 1].multipart

\* a SerializedEmail of an Email with two attachments of different content
C4_Witness ==
    /\ Serialized
    /\ Len(_attachments) = 2
    /\ _attachments[1].data # _attachments[2].data

\* the headers of the header assembly
FinalHeaders == {"Subject", "Message-ID", "Date", "User-Agent", "From", "To", "CC", "BCC"}

\* C5: process() is invoked at most once per serialize(): once when a security
\* processor is set and the call does not raise, never otherwise; it is given the
\* attachment layer, which holds every attachment and none of the final headers;
\* the final headers are set on the entity it returned.
C5_LayerOrder ==
    ret.called =>
        /\ Len(ret.calls) <= 1
        /\ Len(ret.calls) = 1 <=> (_security # None /\ ~ret.raised)
        /\ Serialized =>
              LET content  == ret.value.content
                  attached == ret.value.layers.attachments
                  top      == IF ret.calls = <<>> THEN attached ELSE ret.calls[1].result
              IN  /\ \A i \in 1..Len(ret.calls) :
                        /\ ret.calls[i].arg = attached
                        /\ \A h \in FinalHeaders : ~HasHeader(ret.calls[i].arg, h)
                        /\ Len(_attachments) > 0 =>
                              Len(ret.calls[i].arg.children) = Len(_attachments) + 1
                  /\ (Len(_attachments) > 0 => attached.children[1] = ret.value.layers.body)
                  /\ content.children = top.children
                  /\ content.payload = top.payload
                  /\ SubSeq(content.headers, 1, Len(top.headers)) = top.headers
                  /\ \A i \in (Len(top.headers) + 1)..Len(content.headers) :
                        content.headers[i][1] \in FinalHeaders
                  /\ HasHeader(content, "Message-ID")

\* a SerializedEmail of an Email with a security processor and an attachment
C5_Witness ==
    /\ Serialized
    /\ Len(ret.calls) = 1
    /\ Len(_attachments) > 0

Unique(attachments) ==
    \A i, j \in 1..Len(attachments) :
        i # j => attachments[i].content_id # attachments[j].content_id

ContentIdOfPart(i) == HeaderValues(ret.value.layers.attachments.children[i + 1], "Content-ID")

\* C7, as claimed: the Content-ID header of each attachment's part equals the value
\* its attach_data call returned.
C7_ContentIdIsReturnValue ==
    (Serialized /\ Len(_attachments) > 0) =>
        \A i \in 1..Len(returned) : ContentIdOfPart(i) = <<returned[i].value>>

\* C7, amended: the value an attach_data call returned is "cid:" followed by the
\* Content-ID header of that attachment's part.
C7_ReturnValueIsCidUri ==
    (Serialized /\ Len(_attachments) > 0) =>
        /\ Len(returned) = Len(_attachments)
        /\ \A i \in 1..Len(returned) :
              /\ Len(ContentIdOfPart(i)) = 1
              /\ returned[i].value = "cid:" \o ContentIdOfPart(i)[1]

\* a SerializedEmail of an Email with a synthesized and a supplied content id
C7_Witness ==
    /\ Serialized
    /\ Len(returned) = 2
    /\ returned[1].cid # returned[2].cid

\* C8: a serialize() call, returning or raising, leaves every attribute of the
\* Email as it was; the Message-ID and Date it sets are those of the construction,
\* so two calls in a row set the same ones; no call changes the two.
C8_SerializeLeavesEmail ==
    [][/\ _message_id' = _message_id
       /\ _datetime' = _datetime
       /\ ret'.called =>
             /\ email' = email
             /\ ~ret'.raised =>
                   /\ HeaderValues(ret'.value.content, "Message-ID") = <<_message_id>>
                   /\ HeaderValues(ret'.value.content, "Date") = <<formatdate(_datetime)>>
             /\ (Serialized /\ ~ret'.raised) =>
                   /\ HeaderValues(ret'.value.content, "Message-ID")
                         = HeaderValues(ret.value.content, "Message-ID")
                   /\ HeaderValues(ret'.value.content, "Date")
                         = HeaderValues(ret.value.content, "Date")]_vars

\* a SerializedEmail of an Email with a recipient, a subject and an attachment
C8_Witness ==
    /\ Serialized
    /\ _subject # None
    /\ Len(_attachments) > 0
    /\ HeaderValues(ret.value.content, "Message-ID") = <<_message_id>>

RECURSIVE Rendering(_)
\* the addresses rendered ("Name <mailbox>" or the bare mailbox) and joined by commas
Rendering(addresses) ==
    LET n == Len(addresses)
        one(a) == IF a.name = None THEN a.mail ELSE Val(a.name) \o " <" \o a.mail \o ">"
    IN  IF n = 0 THEN ""
        ELSE IF n = 1 THEN one(addresses[1])
        ELSE Rendering(SubSeq(addresses, 1, n - 1)) \o ", " \o one(addresses[n])

\* C9: a SerializedEmail has the Message-ID, Date, User-Agent and From headers; it
\* has Subject exactly when a subject is set; it has To, CC and BCC exactly when the
\* list is not empty, the value being the comma-joined renderings of the list.
C9_Headers ==
    Serialized =>
        LET content == ret.value.content
            listed(name, addresses) ==
                IF Len(addresses) = 0 THEN HeaderValues(content, name) = <<>>
                ELSE HeaderValues(content, name) = <<Rendering(addresses)>>
        IN  /\ \A h \in {"Message-ID", "Date", "User-Agent", "From"} :
                  Len(HeaderValues(content, h)) = 1
            /\ HeaderValues(content, "From") = <<Rendering(<<_from>>)>>
            /\ HeaderValues(content, "Subject") = _subject
            /\ listed("To", _to)
            /\ listed("CC", _cc)
            /\ listed("BCC", _bcc)

\* a SerializedEmail of an Email with two bcc recipients, no to recipient, no subject
C9_Witness ==
    /\ Serialized
    /\ Len(_bcc) = 2 /\ Len(_to) = 0
    /\ _subject = None

\* the number of mailboxes in a string
Mailboxes(str) == Len(SelectSeq(str, IsMailbox))

\* C10, as claimed: MailAddress.parse of a string with no mailbox or with two or
\* more raises; it returns an address only for a string with exactly one mailbox;
\* given a MailAddress it returns that MailAddress.
C10_ParseExactlyOne ==
    parseOut.called =>
        IF parseIn.isAddress
        THEN parseOut.result = Returned(parseIn.obj)
        ELSE /\ Mailboxes(parseIn.str) # 1 => parseOut.result.raised
             /\ ~parseOut.result.raised => Mailboxes(parseIn.str) = 1

====
